---- MODULE Spec2Model ----
(***************************************************************************)
(* A model of r2.py: the prioritized hindsight replay buffer               *)
(* (ReplayBuffer), the navigation environment (NavigationEnv) and the      *)
(* training loop of the script, and the forward pass of the network        *)
(* (DQNReasoner.forward).                                                  *)
(*                                                                         *)
(* Units.  Python floats are modelled by fixed-point integers:             *)
(*   - lengths and positions in 1/Scale of a pixel;                        *)
(*   - rewards in 1/Scale of a reward unit;                                *)
(*   - headings as the pair (cos, sin) in 1/Trig;                          *)
(*   - priorities and td errors in units of the buffer's epsilon (1e-6).   *)
(***************************************************************************)
EXTENDS Integers, Sequences, FiniteSets, TLC

VARIABLES
    \* ---- ReplayBuffer (r2.py 122-168)
    maxlen,        \* the maxlen of both deques: the constructor's capacity
    buffer,        \* self.buffer: deque of transitions
    priorities,    \* self.priorities: deque of priorities
    beta,          \* self.beta, in 1/1000
    indices,       \* the index list returned by the last sample()
    \* ---- history variables of the buffer
    lastOp,        \* the last buffer operation and its arguments
    pushes,        \* number of push calls so far
    appended,      \* every transition appended so far, in order
    samples,       \* number of sample calls so far
    \* ---- NavigationEnv (r2.py 171-386)
    agent_pos,     \* self.agent_pos
    target_pos,    \* self.target_pos
    target_angle,  \* self.target_angle, as (cos, sin)
    obstacles,     \* self.obstacles: pos, radius, angle as (cos, sin), speed
    envpc,         \* "new" after __init__, "placing" inside reset's loop, "ready"
    \* ---- history variables of the environment
    stepOut,       \* what the last reset()/step() returned, and step's locals
    envSteps,      \* number of step calls so far
    \* ---- the training script (r2.py 388-493)
    pc,            \* where the script is: "reset", "loop", "except", "finally",
                   \* "exit" (past the try statement), "raised" (left by a fault)
    episode,       \* the for loop's episode
    episode_reward,
    episode_rewards,
    epsilon,       \* in 1/Trig
    dqn_params,    \* the online network's parameters (the number of updates)
    target_params, \* the target network's parameters
    closeCalls,    \* number of env.close() calls
    \* ---- history variables of the script
    cancelled,     \* a pygame.QUIT event has been seen
    faulted,       \* a step has raised an exception
    terminals,     \* number of steps that returned done = True
    stepRewards,   \* per episode begun, the rewards its steps returned
    syncs,         \* the episodes at whose end the target network was synced
    \* ---- DQNReasoner.forward (r2.py 77-119), one call examined on its own
    fwd_in,        \* the call's input: its shape, the mode, and what the value
                   \* and advantage streams compute for it
    fwd_out        \* what the call returned

bufVars == <<maxlen, buffer, priorities, beta, indices, lastOp, pushes, appended, samples>>
envVars == <<agent_pos, target_pos, target_angle, obstacles, envpc, stepOut, envSteps>>

runVars == <<pc, episode, episode_reward, episode_rewards, epsilon, dqn_params,
             target_params, closeCalls, cancelled, faulted, terminals, stepRewards, syncs>>

netVars == <<fwd_in, fwd_out>>

vars == <<bufVars, envVars, runVars, netVars>>

-----------------------------------------------------------------------------
(* Bounds of the model                                                     *)

\* ReplayBuffer(capacity): the constructor argument of the buffer
\* specification
capacity == 3
\* push calls explored
MaxPushes == 5
\* sample calls explored
MaxSamples == 2
\* sample(batch_size): the arguments of sample in the buffer specification
SampleSizes == {2}

\* batch_size of the script (64 there)
batch_size == 3
\* num_episodes of the script (1000 there)
num_episodes == 2
\* step calls explored with every action
MaxEnvSteps == 3
\* the largest batch handed to forward
MaxBatch == 2
\* step calls explored along the wall-bound walk
MaxWalkSteps == 18

-----------------------------------------------------------------------------
(* Helpers                                                                 *)

Min(a, b) == IF a < b THEN a ELSE b
Max(a, b) == IF a > b THEN a ELSE b
Abs(a) == IF a < 0 THEN -a ELSE a

RECURSIVE SeqMax(_)
\* max(seq) of a non-empty sequence of numbers
SeqMax(s) == IF Len(s) = 1 THEN s[1] ELSE Max(s[1], SeqMax(Tail(s)))

\* a / b for b > 0, rounded to the nearest integer
RoundDiv(a, b) == IF a >= 0 THEN (2 * a + b) \div (2 * b)
                  ELSE -((2 * (-a) + b) \div (2 * b))

RECURSIVE ISqrtIn(_, _, _)
ISqrtIn(n, lo, hi) ==
    IF lo >= hi THEN lo
    ELSE LET mid == (lo + hi + 1) \div 2
         IN IF mid * mid <= n THEN ISqrtIn(n, mid, hi) ELSE ISqrtIn(n, lo, mid - 1)
\* math.sqrt(n), rounded down
ISqrt(n) == ISqrtIn(n, 0, 46340)

-----------------------------------------------------------------------------
(* ReplayBuffer                                                            *)

\* 1.0, the priority of the first entry, in units of 1e-6
One == 1000000
\* self.epsilon = 1e-6, in units of 1e-6
buf_epsilon == 1
\* self.beta = 0.4 and self.beta_increment = 0.001, in 1/1000
beta_start == 400
beta_increment == 1
beta_max == 1000

\* td errors offered to update_priorities, in units of 1e-6
TdErrors == {-2, 0}
\* rewards offered to push in the buffer specification, in 1/Scale
PushRewards == {-20}

\* ReplayBuffer(): capacity=20000
default_capacity == 20000

DequeAppendNewestDropped(q, x) == IF Len(q) >= maxlen THEN q ELSE Append(q, x)
DequeAppendUnbounded(q, x) == Append(q, x)
\* deque(maxlen=capacity).append(x): a full deque drops its oldest item
DequeAppend(q, x) == IF Len(q) >= maxlen THEN Append(Tail(q), x) ELSE Append(q, x)

\* a stored priority: its value p, and (history) the append it was made by
Prio(p, id, hind) == [p |-> p, id |-> id, hind |-> hind]
PrioValues(ps) == [i \in 1..Len(ps) |-> ps[i].p]

\* a stored transition (state, action, reward, next_state, done); state,
\* action and next_state are those of push number id
Transition(id, r, done, hind) == [id |-> id, r |-> r, done |-> done, hind |-> hind]

\* the hindsight entry (state, action, 1.0, next_state, True) of push number id
HindsightOf(id) == Transition(id, 10, TRUE, TRUE)

MaxPriorityNewest(ps) == IF Len(ps) = 0 THEN One ELSE ps[Len(ps)].p
\* max(self.priorities) if self.priorities else 1.0
MaxPriority(ps) == IF Len(ps) = 0 THEN One ELSE SeqMax(PrioValues(ps))

\* buffer after push
PushBuffer(buf, id, r, done) ==
    LET b1 == DequeAppend(buf, Transition(id, r, done, FALSE))
    IN IF ~done THEN DequeAppend(b1, HindsightOf(id)) ELSE b1

\* priorities after push
PushPriorities(ps, id, done) ==
    LET mp == MaxPriority(ps)
        p1 == DequeAppend(ps, Prio(mp, id, FALSE))
    IN IF ~done THEN DequeAppend(p1, Prio(mp, id, TRUE)) ELSE p1

NewBetaUncapped(b) == b + beta_increment
\* min(1.0, self.beta + self.beta_increment)
NewBeta(b) == Min(beta_max, b + beta_increment)

NewPriorityNoFloor(td) == Abs(td)
\* abs(td_error) + self.epsilon
NewPriority(td) == Abs(td) + buf_epsilon

RECURSIVE UpdatePrioritiesFirstWins(_, _, _)
UpdatePrioritiesFirstWins(ps, idxs, tds) ==
    IF Len(idxs) = 0 THEN ps
    ELSE LET rest == UpdatePrioritiesFirstWins(ps, Tail(idxs), Tail(tds))
         IN [rest EXCEPT ![idxs[1] + 1].p = NewPriority(tds[1])]

RECURSIVE UpdatePrioritiesOf(_, _, _)
\* priorities after update_priorities(idxs, tds): the pairs of zip(idxs, tds)
\* are written in order; idxs are 0-based
UpdatePrioritiesOf(ps, idxs, tds) ==
    IF Len(idxs) = 0 THEN ps
    ELSE UpdatePrioritiesOf([ps EXCEPT ![idxs[1] + 1].p = NewPriority(tds[1])],
                            Tail(idxs), Tail(tds))

\* self.alpha = 0.6, in 1/1000 as beta
alpha == 600
\* the unit of logarithms and of the weights before normalisation
Fix == 10000
\* ln 2, in 1/Fix
Ln2 == 6931
\* a weight of 1.0, weights being in 1/1000
weight_one == 1000

RECURSIVE LnRatio(_, _)
\* ln(a / b) in 1/Fix for a, b > 0: the ratio is brought into [1, 2) by
\* doublings, then ln m = 2 atanh((m - 1) / (m + 1)) by its series
LnRatio(a, b) ==
    IF a >= 2 * b THEN LnRatio(a, 2 * b) + Ln2
    ELSE IF a < b THEN LnRatio(2 * a, b) - Ln2
    ELSE IF a >= 131072 THEN LnRatio(a \div 2, b \div 2)
    ELSE LET z == ((a - b) * Fix) \div (a + b)
             z2 == (z * z) \div Fix
             z3 == (z * z2) \div Fix
             z5 == (z3 * z2) \div Fix
             z7 == (z5 * z2) \div Fix
         IN 2 * z + (2 * z3) \div 3 + (2 * z5) \div 5 + (2 * z7) \div 7

RECURSIVE Pow2Mul(_, _)
\* v * 2^k, rounded down
Pow2Mul(v, k) ==
    IF k > 0 THEN Pow2Mul(2 * v, k - 1)
    ELSE IF k < 0 THEN Pow2Mul(v \div 2, k + 1)
    ELSE v

\* e^(y / Fix) in 1/(mult * Fix): y = k ln 2 + r with 0 <= r < ln 2, e^r by
\* its series
ExpTo(y, mult) ==
    LET k == y \div Ln2
        r == y - k * Ln2
        r2 == (r * r) \div Fix
        r3 == (r * r2) \div Fix
        r4 == (r * r3) \div Fix
        r5 == (r * r4) \div Fix
        r6 == (r * r5) \div Fix
        e == Fix + r + r2 \div 2 + r3 \div 6 + r4 \div 24 + r5 \div 120 + r6 \div 720
    IN Pow2Mul(e * mult, k)

\* p ** self.alpha, in units of 1e-6
PowAlpha(p) ==
    IF p = 0 THEN 0
    ELSE ExpTo((alpha * LnRatio(p, One)) \div beta_max, One \div Fix)

\* the priorities a buffer can hold: 1.0 and those update_priorities writes
PriorityValues == {One} \cup {NewPriority(td) : td \in TdErrors}
\* PowAlpha, tabulated over them
PowAlphaOf == [p \in PriorityValues |-> PowAlpha(p)]

RECURSIVE PowAlphaSum(_)
\* probs.sum() before the division, probs being
\* np.array(self.priorities) ** self.alpha
PowAlphaSum(ps) ==
    IF Len(ps) = 0 THEN 0 ELSE PowAlphaOf[ps[1].p] + PowAlphaSum(Tail(ps))

\* (len(self.buffer) * probs[idx]) ** (-self.beta) for one index, in 1/Fix;
\* probs[idx] is priorities[idx] ** alpha / probs.sum()
RawWeight(ps, idx, b) ==
    ExpTo(-((b * LnRatio(Len(ps) * PowAlphaOf[ps[idx + 1].p], PowAlphaSum(ps)))
                \div beta_max), 1)

WeightsMaxOverBuffer(ps, idxs, b) ==
    LET all == [i \in 1..Len(ps) |-> RawWeight(ps, i - 1, b)]
    IN [j \in 1..Len(idxs) |->
           RoundDiv(RawWeight(ps, idxs[j], b) * weight_one, SeqMax(all))]
\* the weights sample returns with the indices idxs, beta being b:
\* weights = (len(buffer) * probs[indices]) ** (-beta); weights /= weights.max()
Weights(ps, idxs, b) ==
    LET raw == [j \in 1..Len(idxs) |-> RawWeight(ps, idxs[j], b)]
    IN [j \in 1..Len(idxs) |-> RoundDiv(raw[j] * weight_one, SeqMax(raw))]

\* ReplayBuffer(cap), sample having raised beta to b
BufInitAt(cap, b) ==
    /\ maxlen = cap
    /\ buffer = <<>>
    /\ priorities = <<>>
    /\ beta = b
    /\ indices = <<>>
    /\ lastOp = [op |-> "init"]
    /\ pushes = 0
    /\ appended = <<>>
    /\ samples = 0

\* ReplayBuffer(cap)
BufInit(cap) == BufInitAt(cap, beta_start)

\* what push(state, action, reward, next_state, done) changes
PushState(r, done) ==
    /\ buffer' = PushBuffer(buffer, pushes + 1, r, done)
    /\ priorities' = PushPriorities(priorities, pushes + 1, done)
    /\ pushes' = pushes + 1
    /\ appended' = appended \o <<Transition(pushes + 1, r, done, FALSE)>>
                     \o (IF done THEN <<>> ELSE <<HindsightOf(pushes + 1)>>)

PushRecord(r, done) == [op |-> "push", r |-> r, done |-> done, len |-> Len(buffer)]

\* replay_buffer.push(state, action, reward, next_state, done)
Push(r, done) ==
    /\ PushState(r, done)
    /\ lastOp' = PushRecord(r, done)
    /\ UNCHANGED <<maxlen, beta, indices, samples>>

\* what sample(n) changes and returns, on the buffer buf with priorities ps:
\* n indices drawn with replacement; every index has a positive probability
\* when every priority is positive
SampleState(buf, ps, n) ==
    /\ Len(buf) > 0
    /\ beta' = NewBeta(beta)
    /\ \E ix \in [1..n -> {i \in 0..(Len(buf) - 1) : ps[i + 1].p > 0}] :
          indices' = ix
    /\ samples' = samples + 1

\* replay_buffer.sample(n)
Sample(n) ==
    /\ SampleState(buffer, priorities, n)
    /\ lastOp' = [op |-> "sample", len |-> Len(buffer)]
    /\ UNCHANGED <<maxlen, buffer, priorities, pushes, appended>>

\* replay_buffer.update_priorities(indices, td_errors) with the indices of the
\* last sample, which the caller uses once
UpdatePriorities(tds) ==
    /\ Len(indices) > 0
    /\ priorities' = UpdatePrioritiesOf(priorities, indices, tds)
    /\ lastOp' = [op |-> "update", idxs |-> indices, tds |-> tds]
    /\ indices' = <<>>
    /\ UNCHANGED <<maxlen, buffer, beta, pushes, appended, samples>>

-----------------------------------------------------------------------------
(* NavigationEnv                                                           *)

\* fixed-point units: positions in 1/Scale pixel, cos and sin in 1/Trig
Scale == 10
Trig == 1000

width == 1024 * Scale
height == 768 * Scale
agent_radius == 12 * Scale
target_radius == 15 * Scale
speed == 4 * Scale
target_speed == 2 * Scale
\* the factor 0.707 of a diagonal move, in 1/Trig
Diagonal == 707
\* reset draws coordinates in [50, width - 50] x [50, height - 50]
spawn_margin == 50 * Scale

\* rewards, in 1/Scale
collision_reward == -2 * Scale
target_reward == 200 * Scale
step_penalty == Scale \div 10

action_size == 8
Actions == 0..(action_size - 1)

Pt(x, y) == <<x * Scale, y * Scale>>

Obstacle(pos, radius, angle, spd) ==
    [pos |-> pos, radius |-> radius, angle |-> angle, speed |-> spd]

\* the obstacles of __init__ with headings angles[1..4]; speeds 1.5, 1.2,
\* 1.8 and 1.3
InitObstacles(angles) ==
    << Obstacle(Pt(300, 400), 50 * Scale, angles[1], (15 * Scale) \div 10),
       Obstacle(Pt(700, 300), 40 * Scale, angles[2], (12 * Scale) \div 10),
       Obstacle(Pt(500, 600), 45 * Scale, angles[3], (18 * Scale) \div 10),
       Obstacle(Pt(200, 200), 35 * Scale, angles[4], (13 * Scale) \div 10) >>

Clamp(lo, hi, x) == Max(lo, Min(hi, x))

\* math.sqrt((p[0] - q[0])**2 + (p[1] - q[1])**2)
Dist(p, q) == ISqrt((p[1] - q[1]) * (p[1] - q[1]) + (p[2] - q[2]) * (p[2] - q[2]))

\* (cos a, sin a) for a = math.atan2(dy, dx); atan2(0, 0) is 0
Bearing(dx, dy) ==
    LET d == ISqrt(dx * dx + dy * dy)
    IN IF d = 0 THEN <<Trig, 0>>
       ELSE <<RoundDiv(dx * Trig, d), RoundDiv(dy * Trig, d)>>

\* pos + (cos(angle) * spd, sin(angle) * spd)
Move(pos, angle, spd) ==
    <<pos[1] + RoundDiv(angle[1] * spd, Trig), pos[2] + RoundDiv(angle[2] * spd, Trig)>>

\* the heading after the wall tests of a circle of the given radius at pos:
\* angle -> pi - angle at the left and right walls, angle -> -angle at the
\* top and bottom walls
WallReflect(pos, radius, angle) ==
    LET a1 == IF pos[1] < radius \/ pos[1] > width - radius
              THEN <<-angle[1], angle[2]>> ELSE angle
    IN IF pos[2] < radius \/ pos[2] > height - radius
       THEN <<a1[1], -a1[2]>> ELSE a1

ClampInsetNone(pos, radius) == pos
\* max(radius, min(extent - radius, coordinate)) on both coordinates
ClampInset(pos, radius) ==
    <<Clamp(radius, width - radius, pos[1]), Clamp(radius, height - radius, pos[2])>>

RECURSIVE CheckCollisionFrom(_, _, _)
CheckCollisionFrom(k, pos, obs) ==
    IF k > Len(obs) THEN 0
    ELSE IF Dist(pos, obs[k].pos) < agent_radius + obs[k].radius THEN k
    ELSE CheckCollisionFrom(k + 1, pos, obs)
\* _check_collision(): the index of the first obstacle the agent at pos
\* overlaps, 0 for None
CheckCollision(pos, obs) == CheckCollisionFrom(1, pos, obs)

RECURSIVE TargetBounceFrom(_, _, _)
\* the loop of step over the obstacles the target overlaps, from obstacle k
\* on.  st.old is old_target_pos: after the first overlap target_pos and
\* old_target_pos are one list, so old follows pos.
TargetBounceFrom(k, st, obs) ==
    IF k > Len(obs) THEN st
    ELSE IF Dist(st.pos, obs[k].pos) < target_radius + obs[k].radius
    THEN LET bounce_angle == Bearing(st.pos[1] - obs[k].pos[1], st.pos[2] - obs[k].pos[2])
             moved == Move(st.old, bounce_angle, target_speed)
         IN TargetBounceFrom(k + 1,
                [pos |-> moved, old |-> moved, angle |-> bounce_angle,
                 bounces |-> st.bounces + 1], obs)
    ELSE TargetBounceFrom(k + 1, st, obs)

\* the target after its move, wall test and obstacle loop (before the clamp)
TargetStep(pos, angle, obs) ==
    LET moved == Move(pos, angle, target_speed)
    IN TargetBounceFrom(1,
           [pos |-> moved, old |-> pos,
            angle |-> WallReflect(moved, target_radius, angle), bounces |-> 0], obs)

\* one obstacle after its move, wall test and clamp
ObstacleStep(o) ==
    LET moved == Move(o.pos, o.angle, o.speed)
    IN [o EXCEPT !.pos = ClampInset(moved, o.radius),
                 !.angle = WallReflect(moved, o.radius, o.angle)]

\* the displacement (dx, dy) of an action
ActionDelta(action) ==
    LET dy == (IF action \in {0, 4, 5} THEN -speed ELSE 0)
              + (IF action \in {2, 6, 7} THEN speed ELSE 0)
        dx == (IF action \in {1, 5, 7} THEN speed ELSE 0)
              + (IF action \in {3, 4, 6} THEN -speed ELSE 0)
    IN IF dx # 0 /\ dy # 0
       THEN <<RoundDiv(dx * Diagonal, Trig), RoundDiv(dy * Diagonal, Trig)>>
       ELSE <<dx, dy>>

\* the agent after its move and the clamp into [0, width] x [0, height]
FreeMove(pos, action) ==
    LET d == ActionDelta(action)
    IN <<Clamp(0, width, pos[1] + d[1]), Clamp(0, height, pos[2] + d[2])>>

BounceFromFreePos(old_pos, free_pos, o) ==
    Move(free_pos, Bearing(free_pos[1] - o.pos[1], free_pos[2] - o.pos[2]), speed)
\* the agent after a collision with o: back to old_pos, then one move along
\* the bearing from the obstacle to the agent's position of the collision
Bounce(old_pos, free_pos, o) ==
    Move(old_pos, Bearing(free_pos[1] - o.pos[1], free_pos[2] - o.pos[2]), speed)

\* (old_dist - dist) * 0.5 - 0.1
ShapingReward(old_dist, dist) == RoundDiv(old_dist - dist, 2) - step_penalty

\* done = dist < (self.agent_radius + self.target_radius), dist being the
\* distance computed before the collision test
DoneOf(dist) == dist < agent_radius + target_radius

-----------------------------------------------------------------------------
(* What reset() and __init__ draw at random                                *)

East == <<Trig, 0>>
West == <<-Trig, 0>>
South == <<0, Trig>>
North == <<0, -Trig>>
\* a heading off the axes: cos = 0.6, sin = 0.8
SouthEast == <<(6 * Trig) \div 10, (8 * Trig) \div 10>>

\* the headings __init__ draws
InitAngles == { <<East, South, West, North>> }

\* the agent positions reset's loop draws from
AgentSpawns == { Pt(100, 100), Pt(50, 100), Pt(300, 400), Pt(700, 300) }

\* what the rest of reset draws: the target, its heading, and the positions
\* and headings of the four obstacles
\* random.randint(50, self.width-50), random.randint(50, self.height-50)
InSpawnRange(pos) ==
    /\ spawn_margin <= pos[1] /\ pos[1] <= width - spawn_margin
    /\ spawn_margin <= pos[2] /\ pos[2] <= height - spawn_margin

ResetDraw(t, ta, ps, as) == [target |-> t, tangle |-> ta, opos |-> ps, oangle |-> as]
\* no obstacle near the agent, the target just below (100, 100)
DrawTargetNear ==
    ResetDraw(Pt(100, 128), North,
              <<Pt(300, 500), Pt(700, 300), Pt(500, 600), Pt(800, 200)>>,
              <<East, South, West, North>>)
\* the target just below (100, 100), obstacle 4 at its left
DrawTargetAndObstacleNear ==
    ResetDraw(Pt(100, 131), North,
              <<Pt(600, 500), Pt(700, 300), Pt(500, 600), Pt(58, 96)>>,
              <<East, South, West, South>>)
ResetDraws ==
    { DrawTargetNear, DrawTargetAndObstacleNear,
      \* obstacle 4 between (50, 100) and (100, 100), moving to the left wall
      ResetDraw(Pt(600, 400), East,
                <<Pt(300, 500), Pt(700, 300), Pt(500, 600), Pt(60, 100)>>,
                <<SouthEast, South, West, West>>),
      \* obstacle 4 barely overlapping an agent at (100, 100), moving away
      ResetDraw(Pt(103, 140), South,
                <<Pt(300, 500), Pt(700, 300), Pt(500, 600), Pt(146, 100)>>,
                <<East, North, West, East>>) }

\* the target and the obstacles at the edge of the range reset draws from,
\* each heading for the nearest wall; the target, 35 px from its inset, and
\* obstacle 4, 23 px from its own, get there in 18 steps
DrawAtWalls ==
    ResetDraw(Pt(50, 700), West,
              <<Pt(50, 400), Pt(974, 300), Pt(500, 718), Pt(600, 58)>>,
              <<West, East, South, North>>)
\* the target overlapping obstacle 1, to its left, and obstacle 2, above it
DrawTargetBetweenObstacles ==
    ResetDraw(Pt(500, 400), East,
              <<Pt(440, 400), Pt(500, 350), Pt(800, 100), Pt(200, 650)>>,
              <<East, East, East, East>>)
\* the draws of reset along the walk
WalkDraws == ResetDraws \cup {DrawAtWalls, DrawTargetBetweenObstacles}

\* the draws of reset in the specification of the script
TrainSpawns == { Pt(100, 100), Pt(300, 400) }
TrainDraws == { DrawTargetNear, DrawTargetAndObstacleNear }

-----------------------------------------------------------------------------
(* NavigationEnv: state and operations                                     *)

NoStep == [op |-> "none"]

EnvInit ==
    /\ agent_pos = Pt(400, 300)
    /\ target_pos = Pt(600, 400)
    /\ target_angle = SouthEast
    /\ \E angles \in InitAngles : obstacles = InitObstacles(angles)
    /\ envpc = "new"
    /\ stepOut = NoStep
    /\ envSteps = 0

\* env.reset(), one iteration of its loop: draw the agent's position; when
\* it collides with an obstacle draw again, else draw the target and the
\* obstacles and return
ResetIter(spawns, draws) ==
    /\ envpc \in {"new", "placing", "ready"}
    /\ \E p \in {q \in spawns : InSpawnRange(q)} :
          /\ agent_pos' = p
          /\ IF CheckCollision(p, obstacles) # 0
             THEN /\ envpc' = "placing"
                  /\ stepOut' = NoStep
                  /\ UNCHANGED <<target_pos, target_angle, obstacles>>
             ELSE \E d \in {c \in draws : InSpawnRange(c.target)
                                     /\ \A k \in 1..4 : InSpawnRange(c.opos[k])} :
                  /\ target_pos' = d.target
                  /\ target_angle' = d.tangle
                  /\ obstacles' = [k \in 1..Len(obstacles) |->
                                     [obstacles[k] EXCEPT !.pos = d.opos[k],
                                                          !.angle = d.oangle[k]]]
                  /\ envpc' = "ready"
                  /\ stepOut' = [op |-> "reset"]
    /\ UNCHANGED envSteps

\* env.step(action)
Step(action) ==
    /\ envpc = "ready"
    /\ LET t == TargetStep(target_pos, target_angle, obstacles)
           obs == [k \in 1..Len(obstacles) |-> ObstacleStep(obstacles[k])]
           tpos == ClampInset(t.pos, target_radius)
           old_pos == agent_pos
           free_pos == FreeMove(agent_pos, action)
           dist == Dist(free_pos, tpos)
           old_dist == Dist(old_pos, tpos)
           collision == CheckCollision(free_pos, obs)
           final_pos == IF collision # 0 THEN Bounce(old_pos, free_pos, obs[collision])
                        ELSE free_pos
           done == DoneOf(dist)
           reward == IF done THEN target_reward
                     ELSE IF collision # 0 THEN collision_reward
                     ELSE ShapingReward(old_dist, dist)
       IN /\ target_pos' = tpos
          /\ target_angle' = t.angle
          /\ obstacles' = obs
          /\ agent_pos' = final_pos
          /\ stepOut' = [op |-> "step", action |-> action, reward |-> reward,
                         done |-> done, old_pos |-> old_pos, free_pos |-> free_pos,
                         collision |-> collision,
                         overlapped |-> CheckCollision(agent_pos, obstacles) # 0,
                         target_bounces |-> t.bounces, target_unclamped |-> t.pos,
                         old_target_pos |-> target_pos]
    /\ envSteps' = envSteps + 1
    /\ UNCHANGED envpc

-----------------------------------------------------------------------------
(* The training script                                                     *)

\* epsilon_start = 1.0, epsilon_end = 0.01, epsilon_decay = 0.997, in 1/Trig
epsilon_start == 1000
epsilon_end == 10
epsilon_decay == 997
\* the target network is synced when episode % 5 == 0
sync_every == 5

DecayNone(e) == e
\* max(epsilon_end, epsilon * epsilon_decay)
Decay(e) == Max(epsilon_end, RoundDiv(e * epsilon_decay, Trig))

RECURSIVE SeqSum(_)
SeqSum(s) == IF Len(s) = 0 THEN 0 ELSE s[1] + SeqSum(Tail(s))

RunInit ==
    /\ pc = "reset"
    /\ episode = 0
    /\ episode_reward = 0
    /\ episode_rewards = <<>>
    /\ epsilon = epsilon_start
    /\ dqn_params = 0
    /\ target_params = 0
    /\ closeCalls = 0
    /\ cancelled = FALSE
    /\ faulted = FALSE
    /\ terminals = 0
    /\ stepRewards = <<>>
    /\ syncs = {}

runHistory == <<cancelled, faulted, terminals, stepRewards, syncs>>

\* for episode in range(num_episodes): state = env.reset(), one iteration of
\* reset's loop; when reset returns, episode_reward = 0 and done = False
TrainReset ==
    /\ pc = "reset"
    /\ episode < num_episodes
    /\ ResetIter(TrainSpawns, TrainDraws)
    /\ IF envpc' = "ready"
       THEN /\ pc' = "loop"
            /\ episode_reward' = 0
            /\ stepRewards' = Append(stepRewards, <<>>)
       ELSE UNCHANGED <<pc, episode_reward, stepRewards>>
    /\ UNCHANGED <<episode, episode_rewards, epsilon, dqn_params, target_params,
                   closeCalls, cancelled, faulted, terminals, syncs>>
    /\ UNCHANGED <<bufVars, netVars>>

\* the for loop is exhausted: the try block ends, on to finally
TrainBudgetEnd ==
    /\ pc = "reset"
    /\ envpc # "placing"
    /\ episode >= num_episodes
    /\ pc' = "finally"
    /\ UNCHANGED <<episode, episode_reward, episode_rewards, epsilon, dqn_params,
                   target_params, closeCalls, runHistory>>
    /\ UNCHANGED <<bufVars, envVars, netVars>>

QuitIgnored ==
    /\ pc = "loop"
    /\ cancelled' = TRUE
    /\ UNCHANGED <<pc, episode, episode_reward, episode_rewards, epsilon, dqn_params,
                   target_params, closeCalls, faulted, terminals, stepRewards, syncs>>
    /\ UNCHANGED <<bufVars, envVars, netVars>>
\* top of a step: pygame.event.get() holds a QUIT event, raise
\* KeyboardInterrupt
TrainQuit ==
    /\ pc = "loop"
    /\ pc' = "except"
    /\ cancelled' = TRUE
    /\ UNCHANGED <<episode, episode_reward, episode_rewards, epsilon, dqn_params,
                   target_params, closeCalls, faulted, terminals, stepRewards, syncs>>
    /\ UNCHANGED <<bufVars, envVars, netVars>>

ExceptAppendsPartial ==
    /\ pc = "except"
    /\ pc' = "finally"
    /\ episode_rewards' = Append(episode_rewards, episode_reward)
    /\ UNCHANGED <<episode, episode_reward, epsilon, dqn_params,
                   target_params, closeCalls, runHistory>>
    /\ UNCHANGED <<bufVars, envVars, netVars>>
\* except KeyboardInterrupt: print, on to finally
TrainExcept ==
    /\ pc = "except"
    /\ pc' = "finally"
    /\ UNCHANGED <<episode, episode_reward, episode_rewards, epsilon, dqn_params,
                   target_params, closeCalls, runHistory>>
    /\ UNCHANGED <<bufVars, envVars, netVars>>

\* finally: env.close(); a fault then leaves the script
TrainClose ==
    /\ pc = "finally"
    /\ closeCalls' = closeCalls + 1
    /\ pc' = IF faulted THEN "raised" ELSE "exit"
    /\ UNCHANGED <<episode, episode_reward, episode_rewards, epsilon, dqn_params,
                   target_params, runHistory>>
    /\ UNCHANGED <<bufVars, envVars, netVars>>

\* a step whose action is the greedy one (random.random() >= epsilon):
\* dqn(state) returns a pair, the network being in training mode, and
\* q_values.argmax() raises
TrainGreedyFault ==
    /\ pc = "loop"
    /\ epsilon < epsilon_start
    /\ pc' = "finally"
    /\ faulted' = TRUE
    /\ UNCHANGED <<episode, episode_reward, episode_rewards, epsilon, dqn_params,
                   target_params, closeCalls, cancelled, terminals, stepRewards, syncs>>
    /\ UNCHANGED <<bufVars, envVars, netVars>>

EpisodeEndSyncsAlways(total) ==
    /\ target_params' = dqn_params
    /\ syncs' = syncs \cup {episode}
    /\ epsilon' = Decay(epsilon)
    /\ episode_rewards' = Append(episode_rewards, total)
    /\ episode' = episode + 1
\* the code after the while loop: target sync, epsilon decay, tally
EpisodeEndOf(total) ==
    /\ target_params' = IF episode % sync_every = 0 THEN dqn_params ELSE target_params
    /\ syncs' = IF episode % sync_every = 0 THEN syncs \cup {episode} ELSE syncs
    /\ epsilon' = Decay(epsilon)
    /\ episode_rewards' = Append(episode_rewards, total)
    /\ episode' = episode + 1

ShouldTrainNonEmpty(len) == len > 0
\* if len(replay_buffer) >= batch_size: the guard of the training step
ShouldTrain(len) == len >= batch_size

\* one pass of the while loop with no QUIT event and a random action:
\* env.step, replay_buffer.push, the training step when the buffer holds
\* batch_size entries, the bookkeeping, and after a terminal step the code
\* that ends the episode.  The training step samples and then raises:
\* dqn(states) returns a pair and q_values.squeeze() fails.
TrainStep(action) ==
    /\ pc = "loop"
    /\ Step(action)
    /\ PushState(stepOut'.reward, stepOut'.done)
    /\ maxlen' = maxlen
    /\ dqn_params' = dqn_params
    /\ closeCalls' = closeCalls
    /\ cancelled' = cancelled
    /\ UNCHANGED netVars
    /\ IF ShouldTrain(Len(buffer'))
       THEN /\ SampleState(buffer', priorities', batch_size)
            /\ lastOp' = [op |-> "sample", len |-> Len(buffer')]
            /\ pc' = "finally"
            /\ faulted' = TRUE
            /\ UNCHANGED <<episode, episode_reward, episode_rewards, epsilon,
                           target_params, terminals, stepRewards, syncs>>
       ELSE /\ UNCHANGED <<indices, beta, samples>>
            /\ lastOp' = PushRecord(stepOut'.reward, stepOut'.done)
            /\ faulted' = faulted
            /\ stepRewards' = [stepRewards EXCEPT ![Len(stepRewards)] =
                                  Append(@, stepOut'.reward)]
            /\ IF stepOut'.done
               THEN /\ EpisodeEndOf(episode_reward + stepOut'.reward)
                    /\ episode_reward' = episode_reward + stepOut'.reward
                    /\ terminals' = terminals + 1
                    /\ pc' = "reset"
               ELSE /\ episode_reward' = episode_reward + stepOut'.reward
                    /\ pc' = "loop"
                    /\ UNCHANGED <<episode, episode_rewards, epsilon, target_params,
                                   terminals, syncs>>

-----------------------------------------------------------------------------
(* DQNReasoner.forward                                                     *)

\* state_size = 20 and self.d_model = 256
state_size == 20
d_model == 256
\* 1.0 of a network output: outputs are in 1/QUnit, a unit in which the
\* means over up to 4 samples and over the 8 actions are exact
QUnit == 24

\* A tensor is its shape and its elements, a function of the index tuples
\* (1-based here).
Indices(shape) ==
    LET m == SeqMax(shape)
    IN {ix \in [1..Len(shape) -> 1..m] : \A i \in 1..Len(shape) : ix[i] <= shape[i]}

Tensor(shape, at) == [shape |-> shape, at |-> at]

\* a shape with n dimensions, padded with 1s on the left
PadLeft(shape, n) ==
    [i \in 1..n |-> IF i <= n - Len(shape) THEN 1 ELSE shape[i - (n - Len(shape))]]

\* the shape of a + b by broadcasting: shapes are aligned on the right, and
\* a dimension of size 1 is stretched to the other's size
BroadcastShape(a, b) ==
    LET n == Max(Len(a), Len(b))
        pa == PadLeft(a, n)
        pb == PadLeft(b, n)
    IN [i \in 1..n |-> IF pa[i] = 1 THEN pb[i] ELSE pa[i]]

\* the element of t that a broadcast reads at index ix of the result
BroadcastAt(t, ix) ==
    LET n == Len(t.shape)
        off == Len(ix) - n
    IN t.at[[i \in 1..n |-> IF t.shape[i] = 1 THEN 1 ELSE ix[off + i]]]

\* a + b and a - b
TAdd(a, b) ==
    LET shape == BroadcastShape(a.shape, b.shape)
    IN Tensor(shape, [ix \in Indices(shape) |-> BroadcastAt(a, ix) + BroadcastAt(b, ix)])
TSub(a, b) ==
    LET shape == BroadcastShape(a.shape, b.shape)
    IN Tensor(shape, [ix \in Indices(shape) |-> BroadcastAt(a, ix) - BroadcastAt(b, ix)])

RECURSIVE SumAlong(_, _, _, _)
\* the sum of t over the first n indices of dimension d, the other indices
\* being those of ix
SumAlong(t, ix, d, n) ==
    IF n = 0 THEN 0 ELSE t.at[[ix EXCEPT ![d] = n]] + SumAlong(t, ix, d, n - 1)

\* t.mean(dim=dim, keepdim=True); dim counts from 0
TMeanKeep(t, dim) ==
    LET shape == [t.shape EXCEPT ![dim + 1] = 1]
    IN Tensor(shape, [ix \in Indices(shape) |->
                         RoundDiv(SumAlong(t, ix, dim + 1, t.shape[dim + 1]),
                                  t.shape[dim + 1])])

\* the shape of nn.Linear(_, out) applied to a tensor: the last dimension
\* becomes out
Linear(shape, out) == [shape EXCEPT ![Len(shape)] = out]

RECURSIVE RowOf(_, _, _)
\* the number, counted from 0, of the row ix[1..k] of a tensor in row-major
\* order
RowOf(shape, ix, k) ==
    IF k = 0 THEN 0 ELSE RowOf(shape, ix, k - 1) * shape[k] + (ix[k] - 1)

\* the output of a stream (a Sequential ending in a Linear) on features of
\* the given shape: rows[r] is what it computes for row r of the features
StreamOutput(shape, rows) ==
    LET out == Linear(shape, Len(rows[1]))
    IN Tensor(out, [ix \in Indices(out) |->
                       rows[RowOf(out, ix, Len(out) - 1) + 1][ix[Len(out)]]])

\* the shape of self.pos_encoder
pos_encoder == <<1, 1, d_model>>

\* the shape of x after the input embedding and `x = x + self.pos_encoder`;
\* the transformer, the reasoning layers and the pooling over the stacked
\* layers keep it
FeatureShape(input) == BroadcastShape(Linear(input, d_model), pos_encoder)

\* q_values = value + (advantage - advantage.mean(dim=1, keepdim=True))
QValues(value, advantage) == TAdd(value, TSub(advantage, TMeanKeep(advantage, 1)))

\* the values the value stream computes for a row of features, as rows of
\* one element, and the rows the advantage stream computes
ValueRows == { <<0>>, <<QUnit>> }
AdvantageRows ==
    { <<0, 0, 0, 0, 0, 0, 0, 0>>,
      <<QUnit, 0, 0, 0, 0, 0, 0, 0>>,
      <<2 * QUnit, QUnit, 0, 0, 0, 0, -QUnit, -2 * QUnit>>,
      <<-QUnit, -QUnit, -QUnit, -QUnit, -QUnit, -QUnit, -QUnit, -QUnit>> }

NoCall == [op |-> "none"]

\* no call of forward examined yet
NetInit ==
    /\ fwd_in = NoCall
    /\ fwd_out = NoCall

\* dqn(x) for a batch x of shape (batch, state_size), the network in
\* training mode or not; value and advantage are what the two streams
\* compute for the rows of the features
Forward(batch, training, value, advantage) ==
    LET features == FeatureShape(<<batch, state_size>>)
    IN /\ fwd_in' = [op |-> "forward", batch |-> batch, training |-> training,
                     value |-> value, advantage |-> advantage]
       /\ fwd_out' = [op |-> "forward",
                      q_values |-> QValues(StreamOutput(features, value),
                                           StreamOutput(features, advantage)),
                      \* training mode returns (q_values, next_state_pred)
                      pair |-> training]

-----------------------------------------------------------------------------
(* Specifications                                                          *)

\* the script after line 412: the buffer, the environment and the loop's
\* variables as constructed
Init == BufInit(default_capacity) /\ EnvInit /\ RunInit /\ NetInit

\* the buffer alone: any interleaving of push, sample and update_priorities
BufferInit == BufInit(capacity) /\ EnvInit /\ RunInit /\ NetInit

BufNext ==
    \/ \E r \in PushRewards, done \in BOOLEAN :
          pushes < MaxPushes /\ Push(r, done) /\ UNCHANGED <<envVars, runVars, netVars>>
    \/ \E n \in SampleSizes :
          samples < MaxSamples /\ Sample(n) /\ UNCHANGED <<envVars, runVars, netVars>>
    \/ \E tds \in [1..Len(indices) -> TdErrors] :
          UpdatePriorities(tds) /\ UNCHANGED <<envVars, runVars, netVars>>

SpecBuffer == BufferInit /\ [][BufNext]_vars

\* the buffer alone, as constructed or one increment of beta below 1.0, as
\* it is when sample has been called 599 times (raising beta is the first
\* thing a call does, r2.py:142)
BetaStarts == {beta_start, beta_max - beta_increment}
BufferLateInit ==
    (\E b \in BetaStarts : BufInitAt(capacity, b)) /\ EnvInit /\ RunInit /\ NetInit

SpecBufferLate == BufferLateInit /\ [][BufNext]_vars

\* the environment alone: resets, and steps with any action
EnvNext ==
    \/ ResetIter(AgentSpawns, ResetDraws) /\ UNCHANGED <<bufVars, runVars, netVars>>
    \/ \E a \in Actions : envSteps < MaxEnvSteps /\ Step(a) /\ UNCHANGED <<bufVars, runVars, netVars>>

SpecEnv == Init /\ [][EnvNext]_vars

\* the environment alone, the agent walking left along y = 100
WalkActions == {3}
EnvWalkNext ==
    \/ ResetIter(AgentSpawns, WalkDraws) /\ UNCHANGED <<bufVars, runVars, netVars>>
    \/ \E a \in WalkActions : envSteps < MaxWalkSteps /\ Step(a) /\ UNCHANGED <<bufVars, runVars, netVars>>

SpecEnvWalk == Init /\ [][EnvWalkNext]_vars

\* the same, the program running on: a reset that has not returned makes
\* the next iteration of its loop
SpecEnvWalkFair ==
    SpecEnvWalk /\ WF_vars(ResetIter(AgentSpawns, WalkDraws) /\ UNCHANGED <<bufVars, runVars, netVars>>)

\* the network alone: forward on batches of 1 to MaxBatch observations.
\* forward changes nothing it reads, so one call is explored.
ForwardNext ==
    \E batch \in 1..MaxBatch, training \in BOOLEAN :
        \E value \in [1..batch -> ValueRows], advantage \in [1..batch -> AdvantageRows] :
            /\ fwd_in = NoCall
            /\ Forward(batch, training, value, advantage)
            /\ UNCHANGED <<bufVars, envVars, runVars>>

SpecForward == Init /\ [][ForwardNext]_vars

\* the script
TrainNext ==
    \/ TrainReset
    \/ TrainBudgetEnd
    \/ TrainQuit
    \/ TrainExcept
    \/ TrainClose
    \/ TrainGreedyFault
    \/ \E a \in Actions : TrainStep(a)

SpecTrain == Init /\ [][TrainNext]_vars

\* the script runs on: once in the except or finally clause it gets through it
SpecTrainFair == SpecTrain /\ WF_vars(TrainExcept) /\ WF_vars(TrainClose)

-----------------------------------------------------------------------------
(* Claims about the replay buffer, checked under SpecBuffer                *)

\* the number of entries a push appends
PushedEntries(done) == IF done THEN 1 ELSE 2

\* C1 (as stated): every push of a non-terminal transition increases
\* len(buffer) by exactly 2 and every push of a terminal transition by
\* exactly 1, also at or one below capacity.
C1_LengthGrowsByPushed ==
    lastOp.op = "push" => Len(buffer) = lastOp.len + PushedEntries(lastOp.done)

\* C1 (amended): a push increases len(buffer) by 2 (non-terminal) or 1
\* (terminal) up to the capacity: len after = min(capacity, len before + n).
C1_LengthGrowsUpToCapacity ==
    lastOp.op = "push" =>
        Len(buffer) = Min(capacity, lastOp.len + PushedEntries(lastOp.done))

\* a non-terminal push was made on a buffer one below capacity
C1_Witness ==
    /\ lastOp.op = "push"
    /\ ~lastOp.done
    /\ lastOp.len = capacity - 1
    /\ Len(buffer) = capacity

\* C2: after capacity + k pushes (k > 0) the buffer holds capacity entries,
\* no original entry of the k oldest pushes, exactly the most recently
\* appended entries in insertion order, and every transition sits at the
\* index of the priority appended with it.
C2_RingEviction ==
    pushes > capacity =>
        /\ Len(buffer) = capacity
        /\ \A i \in 1..Len(buffer) :
              ~buffer[i].hind => buffer[i].id > pushes - capacity
        /\ buffer = SubSeq(appended, Len(appended) - capacity + 1, Len(appended))
        /\ Len(priorities) = Len(buffer)
        /\ \A i \in 1..Len(buffer) :
              /\ priorities[i].id = buffer[i].id
              /\ priorities[i].hind = buffer[i].hind

\* capacity + 2 pushes, terminal and non-terminal ones among them
C2_Witness ==
    /\ pushes = capacity + 2
    /\ \E i, j \in 1..Len(appended) :
          /\ appended[i].done /\ ~appended[i].hind
          /\ ~appended[j].done
    /\ \E i \in 1..Len(buffer) : buffer[i].hind

\* C3: every stored priority is strictly positive, the two deques have the
\* same length, and that length is at most capacity.
C3_PrioritiesPositive ==
    /\ \A i \in 1..Len(priorities) : priorities[i].p > 0
    /\ Len(priorities) = Len(buffer)
    /\ Len(buffer) <= capacity

\* priorities were updated with a td error of 0 on a full buffer
C3_Witness ==
    /\ lastOp.op = "update"
    /\ \E j \in 1..Len(lastOp.tds) : lastOp.tds[j] = 0
    /\ Len(buffer) = capacity

\* C4 (as stated): after update_priorities(indices, td_errors) the priority
\* at indices[j] is |td_errors[j]| + epsilon for every position j.
C4_EveryPositionStored ==
    lastOp.op = "update" =>
        \A j \in 1..Len(lastOp.idxs) :
            priorities[lastOp.idxs[j] + 1].p = Abs(lastOp.tds[j]) + buf_epsilon

\* C4 (amended): after update_priorities(indices, td_errors) the priority
\* at every index i of the list is |td_errors[j]| + epsilon for the last
\* position j with indices[j] = i.
C4_LastPositionStored ==
    lastOp.op = "update" =>
        \A j \in 1..Len(lastOp.idxs) :
            (\A k \in (j + 1)..Len(lastOp.idxs) : lastOp.idxs[k] # lastOp.idxs[j])
                => priorities[lastOp.idxs[j] + 1].p = Abs(lastOp.tds[j]) + buf_epsilon

\* an update whose index list names one index twice, with different errors
C4_Witness ==
    /\ lastOp.op = "update"
    /\ \E j, k \in 1..Len(lastOp.idxs) :
          /\ j < k
          /\ lastOp.idxs[j] = lastOp.idxs[k]
          /\ Abs(lastOp.tds[j]) # Abs(lastOp.tds[k])

\* the weights the last sample returned: it has left the priorities as
\* they were, beta as it raised it, and indices as it drew them
LastWeights == Weights(priorities, indices, beta)

\* C12: for every batch returned by sample(n) on a non-empty buffer whose
\* priorities are all strictly positive, every importance weight is at most
\* 1.0 and the largest weight of the batch equals 1.0.
C12_WeightsAtMostOne ==
    lastOp.op = "sample" =>
        LET weights == LastWeights
        IN /\ Len(weights) = Len(indices)
           /\ \A j \in 1..Len(indices) :
                 0 < weights[j] /\ weights[j] <= weight_one
           /\ SeqMax(weights) = weight_one

\* a batch with indices of different priorities and an entry of lower
\* priority than each of them left out: weights below 1.0 and a weight of
\* 1.0
C12_Witness ==
    /\ lastOp.op = "sample"
    /\ \E j, k \in 1..Len(indices) :
          /\ LastWeights[j] < weight_one
          /\ LastWeights[k] = weight_one
          /\ priorities[indices[j] + 1].p > priorities[indices[k] + 1].p
    /\ \E i \in 1..Len(priorities) :
          \A j \in 1..Len(indices) : priorities[i].p < priorities[indices[j] + 1].p

\* C14: push appends the transition (state, action, reward, next_state,
\* done) and, when done is false, right after it the entry (state, action,
\* 1.0, next_state, True); every entry it appends gets the largest priority
\* stored just before the call (1.0 for an empty buffer), so after the call
\* no stored priority exceeds that of the new entries.
C14_PushAppendsAtMaxPriority ==
    [][pushes' = pushes + 1 =>
        LET mp == IF Len(priorities) = 0 THEN One
                  ELSE CHOOSE m \in {priorities[i].p : i \in 1..Len(priorities)} :
                           \A i \in 1..Len(priorities) : priorities[i].p <= m
            n == Len(buffer')
            k == PushedEntries(lastOp'.done)
        IN /\ lastOp'.op = "push"
           /\ n >= k
           /\ Len(priorities') = n
           /\ buffer'[n - k + 1] = [id |-> pushes', r |-> lastOp'.r,
                                    done |-> lastOp'.done, hind |-> FALSE]
           /\ ~lastOp'.done =>
                 buffer'[n] = [id |-> pushes', r |-> 10, done |-> TRUE, hind |-> TRUE]
           /\ \A i \in (n - k + 1)..n : priorities'[i].p = mp
           /\ \A i \in 1..n : priorities'[i].p <= mp]_vars

\* a non-terminal push on a full buffer all of whose priorities had been
\* rewritten, not all to the same value: the two new entries carry the
\* largest of them, which is below 1.0
C14_Witness ==
    /\ lastOp.op = "push"
    /\ ~lastOp.done
    /\ lastOp.len = capacity
    /\ priorities[Len(priorities)].p < One
    /\ priorities[Len(priorities) - 1].p = priorities[Len(priorities)].p
    /\ \E i \in 1..Len(priorities) : priorities[i].p < priorities[Len(priorities)].p

\* C15 (checked under SpecBufferLate): beta starts below 1; each sample
\* raises beta by the fixed increment, capped at 1.0; beta never decreases
\* and never exceeds 1.0; push and update_priorities leave beta unchanged.
C15_BetaRaisedBySampleOnly ==
    /\ [](beta_start < beta_max /\ beta <= beta_max)
    /\ [][/\ beta' >= beta
          /\ samples' = samples + 1 =>
                beta' = (IF beta + beta_increment > beta_max THEN beta_max
                         ELSE beta + beta_increment)
          /\ samples' = samples => beta' = beta]_vars

\* two samples, the first raising beta to 1.0 and the second finding it
\* there, and then an update_priorities
C15_Witness ==
    /\ beta = beta_max
    /\ samples = 2
    /\ lastOp.op = "update"
    /\ pushes > 1

-----------------------------------------------------------------------------
(* Claims about the environment                                            *)

InWorld(pos) == 0 <= pos[1] /\ pos[1] <= width /\ 0 <= pos[2] /\ pos[2] <= height

\* C5 (checked under SpecEnvWalk): after reset() and any sequence of steps
\* the agent's position satisfies 0 <= x <= width and 0 <= y <= height, also
\* after a step in which the agent is bounced off an obstacle.
C5_AgentInWorld == InWorld(agent_pos)

\* C6 (checked under SpecEnv): a step returns terminal exactly when the
\* distance between the agent's final position of the step and the target is
\* below agent_radius + target_radius, and a terminal step returns reward 200.
C6_TerminalIffFinalDistance ==
    stepOut.op = "step" =>
        /\ stepOut.done <=> (Dist(agent_pos, target_pos) < agent_radius + target_radius)
        /\ stepOut.done => stepOut.reward = 200 * Scale

\* the agent overlaps some obstacle
Overlapping(pos, obs) ==
    \E k \in 1..Len(obs) : Dist(pos, obs[k].pos) < agent_radius + obs[k].radius

\* C7 (as stated, under SpecEnv): every step taken from a state in which the
\* agent overlaps an obstacle returns reward -2 and leaves the agent at a
\* position other than the one free motion alone would have produced.
C7_OverlapBeforeStepBounces ==
    (stepOut.op = "step" /\ stepOut.overlapped) =>
        /\ stepOut.reward = -2 * Scale
        /\ agent_pos # stepOut.free_pos

\* C7 (amended, under SpecEnv): every step in which the agent, after its
\* move and clamp, overlaps an obstacle (at the obstacle's position of that
\* step) returns reward -2, or 200 when the step is terminal, and leaves the
\* agent one speed-step from its pre-move position along the bearing from
\* the first such obstacle to the agent.
C7_OverlapAfterMoveBounces ==
    (stepOut.op = "step" /\ Overlapping(stepOut.free_pos, obstacles)) =>
        LET k == CHOOSE i \in 1..Len(obstacles) :
                    /\ Dist(stepOut.free_pos, obstacles[i].pos)
                           < agent_radius + obstacles[i].radius
                    /\ \A j \in 1..(i - 1) :
                           Dist(stepOut.free_pos, obstacles[j].pos)
                               >= agent_radius + obstacles[j].radius
            o == obstacles[k].pos
            f == stepOut.free_pos
        IN /\ stepOut.reward = (IF stepOut.done THEN 200 * Scale ELSE -2 * Scale)
           /\ agent_pos = Move(stepOut.old_pos, Bearing(f[1] - o[1], f[2] - o[2]), speed)

\* a step from an overlapping state collided and was not terminal, and the
\* bounce left the agent off its free-motion position
C7_Witness ==
    /\ stepOut.op = "step"
    /\ stepOut.overlapped
    /\ Overlapping(stepOut.free_pos, obstacles)
    /\ ~stepOut.done
    /\ stepOut.reward = -2 * Scale
    /\ agent_pos # stepOut.free_pos

\* C8 (checked under SpecEnv): in the state reset() returns, the agent
\* overlaps no obstacle.
C8_ResetLeavesAgentFree ==
    stepOut.op = "reset" => ~Overlapping(agent_pos, obstacles)

\* the circle of the given radius at pos lies in the world
InsideInset(pos, radius) ==
    /\ radius <= pos[1] /\ pos[1] <= width - radius
    /\ radius <= pos[2] /\ pos[2] <= height - radius

\* C18 (checked under SpecEnvWalk): after reset() and after every step()
\* the target and every obstacle lie inside the world inset by their own
\* radius: radius <= x <= width - radius and radius <= y <= height - radius.
C18_TargetAndObstaclesInset ==
    stepOut.op \in {"reset", "step"} =>
        /\ InsideInset(target_pos, target_radius)
        /\ \A k \in 1..Len(obstacles) : InsideInset(obstacles[k].pos, obstacles[k].radius)

\* a step has brought the target to the left wall and an obstacle to the
\* top wall, and turned both round
C18_Witness ==
    /\ stepOut.op = "step"
    /\ target_pos[1] = target_radius
    /\ target_angle[1] > 0
    /\ obstacles[4].pos[2] = obstacles[4].radius
    /\ obstacles[4].angle[2] > 0

\* C19 (checked under SpecEnvWalk): in any step in which the moved target
\* overlaps one or more obstacles, the resolution leaves the target exactly
\* one target_speed move away from its position before the move (before the
\* final clamp): the net displacement of the step never exceeds one move,
\* however many obstacles are overlapped.  One unit of the fixed point is
\* allowed for rounding.
C19_TargetOneMoveFromOld ==
    (stepOut.op = "step" /\ stepOut.target_bounces > 0) =>
        Abs(Dist(stepOut.target_unclamped, stepOut.old_target_pos) - target_speed) <= 1

\* C20 (checked under SpecEnvWalkFair): the agent placement of reset()
\* makes at most a bounded number of rejection-sampling attempts, so reset()
\* terminates in every execution, also when every sampled position
\* collides: a reset that is drawing positions eventually returns.
C20_ResetReturns == (envpc = "placing") ~> (envpc = "ready")

-----------------------------------------------------------------------------
(* Claims about the training script                                        *)

\* C9 (checked under SpecTrainFair): however the run ends (the episode
\* budget is exhausted, a QUIT event is seen at the top of a step, a step
\* raises), env.close() is eventually executed, and exactly once; and once
\* a cancellation has been seen there is no further env.step, push or sample.
C9_ClosedOnceOnEveryEnd ==
    /\ [](closeCalls <= 1 /\ (pc \in {"exit", "raised"} => closeCalls = 1))
    /\ [][cancelled => (envSteps' = envSteps /\ pushes' = pushes /\ samples' = samples)]_vars
    /\ (cancelled \/ faulted \/ pc = "finally") ~> (closeCalls = 1)

\* the run was cancelled after at least one step, and the environment closed
C9_Witness ==
    /\ cancelled
    /\ envSteps > 0
    /\ pc = "exit"
    /\ closeCalls = 1

RECURSIVE EpsilonAfter(_)
\* epsilon after n decays
EpsilonAfter(n) ==
    IF n = 0 THEN epsilon_start
    ELSE Max(epsilon_end, RoundDiv(EpsilonAfter(n - 1) * epsilon_decay, Trig))

\* C10 (checked under SpecTrain): at every point of the run episode_rewards
\* holds exactly one entry per episode that ran to terminal, in episode
\* order, each the sum of that episode's rewards; the reward of an episode
\* interrupted by a cancellation is not appended, and epsilon has been
\* decayed and the target network synced for the finished episodes only.
C10_TallyOfFinishedEpisodes ==
    /\ Len(episode_rewards) = terminals
    /\ \A i \in 1..Len(episode_rewards) : episode_rewards[i] = SeqSum(stepRewards[i])
    /\ epsilon = EpsilonAfter(terminals)
    /\ syncs = {e \in 0..(terminals - 1) : e % sync_every = 0}

\* the run was cancelled in an episode after a step of it, with a reward
\* other than 0 accumulated
C10_Witness ==
    /\ cancelled
    /\ pc = "exit"
    /\ Len(stepRewards) = terminals + 1
    /\ Len(stepRewards[terminals + 1]) > 0
    /\ episode_reward # 0

\* C11 (checked under SpecTrain): in the training loop
\* replay_buffer.sample(batch_size) is called only when len(replay_buffer)
\* >= batch_size; it is never called on an empty or under-filled buffer.
C11_SampleOnlyWhenFilled ==
    /\ lastOp.op = "sample" => lastOp.len >= batch_size
    /\ Len(buffer) < batch_size => samples = 0

\* a sample was drawn, after steps that found the buffer under-filled and
\* drew none
C11_Witness ==
    /\ lastOp.op = "sample"
    /\ lastOp.len >= batch_size
    /\ samples = 1
    /\ envSteps > 1

\* C13 (checked under SpecTrain): every time a batch is sampled, the pass
\* of the loop that sampled it hands the TD errors and the sampled indices
\* to replay_buffer.update_priorities before the next env.step, so that the
\* priorities of the sampled entries are no longer the ones they were
\* appended with.
C13_SampledBatchUpdatesPriorities ==
    samples > 0 =>
        /\ lastOp.op = "update"
        /\ Len(lastOp.idxs) = batch_size
        /\ \E i \in 1..Len(priorities) : priorities[i].p # One

C17_EpsilonDecaysPerEpisode ==
    /\ [](epsilon_end <= epsilon /\ epsilon <= epsilon_start)
    /\ [][/\ episode' = episode + 1 <=> terminals' = terminals + 1
          /\ terminals' = terminals + 1 =>
                LET product == RoundDiv(epsilon * epsilon_decay, Trig)
                IN epsilon' = (IF product < epsilon_end THEN epsilon_end ELSE product)
          /\ terminals' = terminals => epsilon' = epsilon
          /\ epsilon' <= epsilon]_vars

\* episode 0 ended and epsilon was decayed once; a step of episode 1 has
\* left it there
C17_Witness ==
    /\ terminals = 1
    /\ envSteps = 2
    /\ stepOut.op = "step"
    /\ epsilon = RoundDiv(epsilon_start * epsilon_decay, Trig)
    /\ epsilon < epsilon_start

-----------------------------------------------------------------------------
(* Claims about the network, checked under SpecForward                     *)

\* the element of q for sample b and action a: the last two indices, any
\* leading ones being 1
ActionValue(q, b, a) ==
    q.at[[i \in 1..Len(q.shape) |->
             IF i = Len(q.shape) THEN a ELSE IF i = Len(q.shape) - 1 THEN b ELSE 1]]

RECURSIVE AdvantageSum(_, _, _, _)
\* the sum over the first n actions of action value minus value term, for
\* sample b
AdvantageSum(q, v, b, n) ==
    IF n = 0 THEN 0 ELSE (ActionValue(q, b, n) - v) + AdvantageSum(q, v, b, n - 1)

\* the shape of the action values is (batch, action_count)
ShapeIsBatchByActions ==
    fwd_out.op = "forward" => fwd_out.q_values.shape = <<fwd_in.batch, action_size>>

\* for each sample, action values minus the value term sum to 0 over the
\* actions
CentredPerSample ==
    fwd_out.op = "forward" =>
        \A b \in 1..fwd_in.batch :
            AdvantageSum(fwd_out.q_values, fwd_in.value[b][1], b, action_size) = 0

\* C21: for every input batch of observations of shape (batch, state_size),
\* forward returns action values of shape (batch, action_count) in which,
\* for each sample separately, action values minus the value term have zero
\* mean across the actions (the advantage is centred by its own per-sample
\* mean over the actions, not by a mean over the batch).
C21_AdvantageCentredPerSample == ShapeIsBatchByActions /\ CentredPerSample

====
